---- MODULE Spec2Model ----
(***************************************************************************)
(* A model of the nginx-healthz client (client.go): the HTTP/JSON          *)
(* transport `get`, the single-upstream reduction `calculateStatsFor`,     *)
(* the zone/hostname resolver `hostnameUpstreamsFromResponse`, and the     *)
(* concurrent aggregator `GetStatsForUpstreams` with its goroutines,       *)
(* atomic accumulators and WaitGroup.                                      *)
(*                                                                         *)
(* Strings that the code takes apart (zone strings, hostnames) are         *)
(* sequences of one-character strings; strings that are only compared or   *)
(* used as map keys (upstream names, peer states) are TLA+ strings.        *)
(***************************************************************************)
EXTENDS Integers, Sequences, FiniteSets

VARIABLES
    server,     \* remote API: upstream name -> HTTP response of /http/upstreams/{name}
    zones,      \* remote API: HTTP response of /http/upstreams?fields=zone
    c,          \* the Client struct (version, baseURL, httpClient)
    nc,         \* the NewClient call that built the client: arguments and result
    ctx,        \* the context.Context the caller passes: "live" or "cancelled"
    pc,         \* position of the calling goroutine
    op,         \* the public operation in progress / last completed, with its argument
    resolved,   \* GetStatsForHost's local `upstreams, err` (result of GetUpstreamsFor)
    upstreams,  \* GetStatsForUpstreams' parameter `upstreams`
    nxt,        \* index of the next element the `for ... range upstreams` loop launches
    gpc,        \* position of each launched goroutine, by index in `upstreams`
    gres,       \* each goroutine's local `stat, err`
    total,      \* accumulator `total` (uint64)
    up,         \* accumulator `up` (uint64)
    down,       \* accumulator `down` (uint64)
    wg,         \* the sync.WaitGroup counter
    finished,   \* history: the goroutines in the order they ran wg.Done()
    log,        \* the HTTP requests of the calling goroutine in this operation
    sent,       \* number of HTTP requests issued by anyone in this operation
    ret,        \* what the operation returned to its caller
    last,       \* history: input and result of the previous GetStatsForUpstreams call
    other       \* the locals of a GetStatsForUpstreams call made by a second caller

vars == <<server, zones, c, nc, ctx, pc, op, resolved, upstreams, nxt, gpc, gres,
          total, up, down, wg, finished, log, sent, ret, last, other>>

----------------------------------------------------------------------------
(* Bounds of the model.                                                    *)

MaxUpstreams == 2      \* longest list passed to GetStatsForUpstreams
MaxPeers == 3          \* longest peer list in the rich single-upstream world
MaxZoneLen == 3        \* longest zone string in the rich zone world
MaxHostLen == 2        \* longest requested hostname in the rich zone world

Names == {"a", "b"}                         \* upstream names known to the remote
PeerStates == {"up", "down", "unavail", "unhealthy", ""}
Chars == {"h", "g", "-"}                    \* alphabet of zone strings and hostnames

----------------------------------------------------------------------------
(* Generic helpers.                                                        *)

SeqsUpTo(S, n) == UNION {[1..k -> S] : k \in 0..n}

Range(s) == {s[i] : i \in DOMAIN s}

\* all orderings of the finite set S, as sequences without repetition
Orders(S) == {o \in [1..Cardinality(S) -> S] : Range(o) = S}

\* all rearrangements of the sequence s
Permutations(s) ==
    {[i \in DOMAIN s |-> s[p[i]]] : p \in Orders(DOMAIN s)}

RECURSIVE SumOver(_, _)
\* sum of f[i] over the finite set I
SumOver(f, I) ==
    IF I = {} THEN 0
    ELSE LET i == CHOOSE x \in I : TRUE IN f[i] + SumOver(f, I \ {i})

EmptyMap == [x \in {} |-> x]

----------------------------------------------------------------------------
(* Values.                                                                 *)

\* type Stats struct { Total, Up, Down int }
Stats(t, u, d) == [Total |-> t, Up |-> u, Down |-> d]
ZeroStats == Stats(0, 0, 0)

\* Go `error` values: nil, or a chain of messages built by errors.New and
\* fmt.Errorf("...: %w", err), outermost first; `code` is the status code
\* formatted into "got response code: %v"; `names` are the upstream names
\* that occur in the text of the error.
NilErr == [chain |-> <<>>, code |-> 0, names |-> {}]
ErrorsNew(msg) == [chain |-> <<msg>>, code |-> 0, names |-> {}]
Errorf(msg, err) == [chain |-> <<msg>> \o err.chain, code |-> err.code, names |-> err.names]
ErrorfCode(msg, code) == [chain |-> <<msg>>, code |-> code, names |-> {}]

\* A JSON document as the decoder sees it.  t is "invalid" (not JSON),
\* "null", "array", "string", "number" or "object".  For an object, `peers`
\* is the array under the key "peers" (each element reduced to its "state"),
\* and `m` is the object's members seen as upstream name -> zone entry.
Json(t, peers, m) == [t |-> t, peers |-> peers, m |-> m]
JsonScalar(t) == Json(t, <<>>, EmptyMap)
JsonUpstream(peers) == Json("object", peers, EmptyMap)
JsonZones(m) == Json("object", <<>>, m)
\* an upstream object one of whose fields after "peers" has the wrong JSON
\* type, as in {"peers":[...],"zone":5}
JsonMistyped(peers) == Json("mistyped", peers, EmptyMap)

\* One member of the zone map: its own JSON type, and the type and text of
\* its "zone" field ("missing" when the field is absent).
ZoneEntry(t, zt, s) == [t |-> t, zt |-> zt, zone |-> s]

\* What the remote does with one request: the transport fails (neterr), or
\* a response arrives with a status code and a body whose read may fail, or
\* the remote accepts the connection and never answers (hang).
HTTPResponse(neterr, code, readerr, body) ==
    [neterr |-> neterr, code |-> code, readerr |-> readerr, body |-> body, hang |-> FALSE]
RespOK(body) == HTTPResponse(FALSE, 200, FALSE, body)
RespNetErr == HTTPResponse(TRUE, 0, FALSE, JsonScalar("invalid"))
RespStatus(code, body) == HTTPResponse(FALSE, code, FALSE, body)
RespReadErr == HTTPResponse(FALSE, 200, TRUE, JsonScalar("invalid"))
RespHang == [HTTPResponse(FALSE, 0, FALSE, JsonScalar("invalid")) EXCEPT !.hang = TRUE]

StatusOK == 200

----------------------------------------------------------------------------
(* Transport: Client.get.                                                  *)

WellFormedBases == {"http://nginx"}

\* fmt.Sprintf("%s/api/%d/http/upstreams/%s", c.baseURL, c.version, upstream)
UpstreamURL(cl, upstream) ==
    [base |-> cl.baseURL, version |-> cl.version, path |-> "upstreams/", name |-> upstream]

\* fmt.Sprintf("%s/api/%d/http/upstreams?fields=zone", c.baseURL, c.version)
ZonesURL(cl) ==
    [base |-> cl.baseURL, version |-> cl.version, path |-> "upstreams?fields=zone", name |-> ""]

\* a remote where the failure of one upstream fails the requests for all
DoSharedFate(url) ==
    IF \E n \in DOMAIN server : server[n].neterr \/ server[n].hang
    THEN RespNetErr
    ELSE IF url.path = "upstreams/" THEN server[url.name] ELSE zones

\* c.httpClient.Do(req): what the remote answers to a GET of url
Do(url) ==
    IF url.path = "upstreams/"
    THEN IF url.name \in DOMAIN server
         THEN server[url.name]
         ELSE RespStatus(404, JsonScalar("object"))
    ELSE zones

\* the *url.Error that url.Parse and http.Client.Do return: its text quotes
\* the URL, and so the upstream name in it
URLError(url, msg) ==
    [chain |-> <<msg>>, code |-> 0, names |-> {url.name} \ {""}]

\* a context that is never done
CtxNeverDone(x) == FALSE

\* ctx.Done() is closed
CtxDone(x) == x = "cancelled"

\* the Timeout field of the *http.Client h: zero (no time limit) for the
\* &http.Client{} of NewClient and for "h2", positive for "h1"
ClientTimeout(h) == IF h = "h1" THEN 1 ELSE 0

\* httpClient.Do(req) never returns: the remote hangs, the request's context
\* is not done and the client has no Timeout
Blocks(url) ==
    /\ url.base \in WellFormedBases
    /\ Do(url).hang
    /\ ~CtxDone(ctx)
    /\ ClientTimeout(c.httpClient) = 0

\* the zero value of the two decode targets
ZeroResponseUpstream == [Peers |-> <<>>]
NilInterface == JsonScalar("null")

\* json.Unmarshal(body, data) with data *responseUpstream: a syntax error or
\* a top-level value that is neither an object nor null is an error; null
\* leaves the target as it was; a field of the wrong type is an error
\* reported after the other fields have been stored in the target.
UnmarshalUpstream(body, data) ==
    CASE body.t = "invalid" -> [err |-> ErrorsNew("json: syntax error"), data |-> data]
      [] body.t = "null"    -> [err |-> NilErr, data |-> data]
      [] body.t = "object"  -> [err |-> NilErr, data |-> [Peers |-> body.peers]]
      [] body.t = "mistyped" ->
             [err |-> ErrorsNew("json: cannot unmarshal"), data |-> [Peers |-> body.peers]]
      [] OTHER              -> [err |-> ErrorsNew("json: cannot unmarshal"), data |-> data]

\* json.Unmarshal(body, data) with data *interface{}: every valid document
\* decodes, whatever its top-level type.
UnmarshalInterface(body, data) ==
    IF body.t = "invalid"
    THEN [err |-> ErrorsNew("json: syntax error"), data |-> data]
    ELSE [err |-> NilErr, data |-> body]

Unmarshal(body, target, data) ==
    IF target = "responseUpstream"
    THEN UnmarshalUpstream(body, data)
    ELSE UnmarshalInterface(body, data)

\* What one call of get did on the wire: `sent` is the request handed to
\* httpClient.Do, `responded` a response received, `read` how much of the
\* body io.ReadAll consumed ("none", "partial" on a read error, "all"),
\* `closed` the deferred resp.Body.Close(), `decoded` the call of
\* json.Unmarshal on the body.
Exchange(url, responded, read, closed, decoded) ==
    [url |-> url, responded |-> responded, read |-> read, closed |-> closed,
     decoded |-> decoded]

\* a transport that reads and decodes the body before it looks at the status
getDecodeFirst(url, target, data) ==
    IF url.base \notin WellFormedBases
    THEN [err |-> Errorf("creating request", URLError(url, "parse error")), data |-> data,
          http |-> <<>>]
    ELSE IF CtxDone(ctx)
    THEN [err |-> Errorf("sending request", URLError(url, "context canceled")), data |-> data,
          http |-> <<Exchange(url, FALSE, "none", FALSE, FALSE)>>]
    ELSE LET resp == Do(url) IN
         IF resp.hang
         THEN [err |-> Errorf("sending request", URLError(url, "Client.Timeout exceeded")),
               data |-> data, http |-> <<Exchange(url, FALSE, "none", FALSE, FALSE)>>]
         ELSE IF resp.neterr
         THEN [err |-> Errorf("sending request", URLError(url, "transport error")), data |-> data,
               http |-> <<Exchange(url, FALSE, "none", FALSE, FALSE)>>]
         ELSE IF resp.readerr
         THEN [err |-> Errorf("reading response body", ErrorsNew("read error")), data |-> data,
               http |-> <<Exchange(url, TRUE, "partial", TRUE, FALSE)>>]
         ELSE LET u == Unmarshal(resp.body, target, data) IN
              IF u.err # NilErr
              THEN [err |-> Errorf("unmarshaling response body", u.err), data |-> data,
                    http |-> <<Exchange(url, TRUE, "all", TRUE, TRUE)>>]
              ELSE IF resp.code # StatusOK
              THEN [err |-> ErrorfCode("got response code", resp.code), data |-> u.data,
                    http |-> <<Exchange(url, TRUE, "all", TRUE, TRUE)>>]
              ELSE [err |-> NilErr, data |-> u.data,
                    http |-> <<Exchange(url, TRUE, "all", TRUE, TRUE)>>]

\* func (c *Client) get(ctx, url, data) error.  `target` names the type
\* behind the `data` pointer and `data` is its value before the call; the
\* result is the returned error, the value behind `data` after the call and
\* the requests the call issued.  The result is the one at the moment Do
\* returns: a context that is done by then fails the request, whether it
\* was done before the request was sent or while it was in flight.  When
\* Blocks(url) holds Do does not return and get has no result; a Do that
\* returns although the remote hangs has run into the client's Timeout.
get(url, target, data) ==
    IF url.base \notin WellFormedBases
    THEN [err |-> Errorf("creating request", URLError(url, "parse error")), data |-> data,
          http |-> <<>>]
    ELSE IF CtxDone(ctx)
    THEN [err |-> Errorf("sending request", URLError(url, "context canceled")), data |-> data,
          http |-> <<Exchange(url, FALSE, "none", FALSE, FALSE)>>]
    ELSE LET resp == Do(url) IN
         IF resp.hang
         THEN [err |-> Errorf("sending request", URLError(url, "Client.Timeout exceeded")),
               data |-> data, http |-> <<Exchange(url, FALSE, "none", FALSE, FALSE)>>]
         ELSE IF resp.neterr
         THEN [err |-> Errorf("sending request", URLError(url, "transport error")), data |-> data,
               http |-> <<Exchange(url, FALSE, "none", FALSE, FALSE)>>]
         ELSE IF resp.code # StatusOK
         THEN [err |-> ErrorfCode("got response code", resp.code), data |-> data,
               http |-> <<Exchange(url, TRUE, "none", TRUE, FALSE)>>]
         ELSE IF resp.readerr
         THEN [err |-> Errorf("reading response body", ErrorsNew("read error")), data |-> data,
               http |-> <<Exchange(url, TRUE, "partial", TRUE, FALSE)>>]
         ELSE LET u == Unmarshal(resp.body, target, data) IN
              IF u.err # NilErr
              THEN [err |-> Errorf("unmarshaling response body", u.err), data |-> u.data,
                    http |-> <<Exchange(url, TRUE, "all", TRUE, TRUE)>>]
              ELSE [err |-> NilErr, data |-> u.data,
                    http |-> <<Exchange(url, TRUE, "all", TRUE, TRUE)>>]

----------------------------------------------------------------------------
(* Upstream stats resolver: GetStatsFor and calculateStatsFor.             *)

RECURSIVE CountUpNotDown(_, _, _)
\* a loop that counts every peer whose state is not "down" as up
CountUpNotDown(peers, i, n) ==
    IF i > Len(peers) THEN n
    ELSE CountUpNotDown(peers, i + 1, IF peers[i] # "down" THEN n + 1 ELSE n)

RECURSIVE CountUp(_, _, _)
\* the loop `for _, p := range res.Peers { if p.State == "up" { up++ } }`,
\* from index i on, with `up` counted so far
CountUp(peers, i, n) ==
    IF i > Len(peers) THEN n
    ELSE CountUp(peers, i + 1, IF peers[i] = "up" THEN n + 1 ELSE n)

\* a reduction without the empty-list check
calculateStatsNoCheck(upstream, res) ==
    LET t == Len(res.Peers)
        u == Cardinality({i \in DOMAIN res.Peers : res.Peers[i] = "up"})
    IN [stats |-> Stats(t, u, t - u), err |-> NilErr]

calculateStatsFor(upstream, res) ==
    IF Len(res.Peers) < 1
    THEN [stats |-> ZeroStats, err |-> ErrorsNew("no servers in upstream")]
    ELSE LET t == Len(res.Peers)
             u == CountUp(res.Peers, 1, 0)
             d == t - u
         IN [stats |-> Stats(t, u, d), err |-> NilErr]

\* a GetStatsFor that tries the request a second time when it failed
GetStatsForRetry(upstream) ==
    LET r1 == get(UpstreamURL(c, upstream), "responseUpstream", ZeroResponseUpstream)
        r2 == get(UpstreamURL(c, upstream), "responseUpstream", ZeroResponseUpstream)
        r == IF r1.err # NilErr
             THEN [err |-> r2.err, data |-> r2.data, http |-> r1.http \o r2.http]
             ELSE r1
    IN IF r.err # NilErr
       THEN [stats |-> ZeroStats, err |-> r.err, http |-> r.http]
       ELSE LET s == calculateStatsFor(upstream, r.data) IN
            [stats |-> s.stats, err |-> s.err, http |-> r.http]

\* a GetStatsFor that returns, next to the error of the request, the counts
\* of what was decoded
GetStatsForKeepsCounts(upstream) ==
    LET r == get(UpstreamURL(c, upstream), "responseUpstream", ZeroResponseUpstream)
        s == calculateStatsFor(upstream, r.data)
    IN IF r.err # NilErr
       THEN [stats |-> s.stats, err |-> r.err, http |-> r.http]
       ELSE [stats |-> s.stats, err |-> s.err, http |-> r.http]

\* the result carries, next to `Stats, error`, the requests the call issued
GetStatsFor(upstream) ==
    LET r == get(UpstreamURL(c, upstream), "responseUpstream", ZeroResponseUpstream) IN
    IF r.err # NilErr
    THEN [stats |-> ZeroStats, err |-> r.err, http |-> r.http]
    ELSE LET s == calculateStatsFor(upstream, r.data) IN
         [stats |-> s.stats, err |-> s.err, http |-> r.http]

----------------------------------------------------------------------------
(* Zone/hostname resolver: GetUpstreamsFor, hostnameUpstreamsFromResponse. *)

\* the position of the last occurrence of sep
IndexLast(s, sep) ==
    IF \E i \in DOMAIN s : s[i] = sep
    THEN CHOOSE i \in DOMAIN s : s[i] = sep /\ \A j \in (i + 1)..Len(s) : s[j] # sep
    ELSE 0

\* strings.Index(s, sep) for a one-character sep, 1-based; 0 when sep is absent
Index(s, sep) ==
    IF \E i \in DOMAIN s : s[i] = sep
    THEN CHOOSE i \in DOMAIN s : s[i] = sep /\ \A j \in 1..(i - 1) : s[j] # sep
    ELSE 0

\* a split that never finds the separator
SplitNone(s, sep) == <<s>>

RECURSIVE Split(_, _)
\* strings.Split(s, sep) for a one-character sep
Split(s, sep) ==
    LET i == Index(s, sep) IN
    IF i = 0 THEN <<s>>
    ELSE <<SubSeq(s, 1, i - 1)>> \o Split(SubSeq(s, i + 1, Len(s)), sep)

RECURSIVE rangeZonesOverwrite(_, _, _, _, _)
\* a loop that stores each match as a fresh one-element list
rangeZonesOverwrite(hostname, m, order, i, hostUpstreams) ==
    IF i > Len(order) THEN hostUpstreams
    ELSE LET u == order[i]
             v == m[u]
         IN IF v.t = "object" /\ v.zt = "string" /\ Split(v.zone, "-")[1] = hostname
            THEN rangeZonesOverwrite(hostname, m, order, i + 1, [k \in {hostname} |-> <<u>>])
            ELSE rangeZonesOverwrite(hostname, m, order, i + 1, hostUpstreams)

RECURSIVE rangeZones(_, _, _, _, _)
\* the loop `for u, v := range m` visiting the keys in the order `order`
\* (Go leaves the iteration order of a map unspecified), from position i on
rangeZones(hostname, m, order, i, hostUpstreams) ==
    IF i > Len(order) THEN hostUpstreams
    ELSE LET u == order[i]
             v == m[u]
             next(h) == rangeZones(hostname, m, order, i + 1, h)
         IN IF v.t # "object" THEN next(hostUpstreams)
            ELSE IF v.zt # "string" THEN next(hostUpstreams)
            ELSE LET host == Split(v.zone, "-")[1] IN
                 IF host # hostname THEN next(hostUpstreams)
                 ELSE IF host \notin DOMAIN hostUpstreams
                 THEN next([k \in {host} |-> <<u>>])
                 ELSE next([hostUpstreams EXCEPT ![host] = Append(@, u)])

\* a conversion for which an entry that is not an object with a string zone
\* is fatal
hostnameUpstreamsStrict(hostname, res, order) ==
    IF res.t # "object" \/ \E u \in DOMAIN res.m : res.m[u].t # "object" \/ res.m[u].zt # "string"
    THEN [panicked |-> TRUE, m |-> EmptyMap]
    ELSE [panicked |-> FALSE, m |-> rangeZones(hostname, res.m, order, 1, EmptyMap)]

\* a conversion that enters the requested hostname into the mapping before
\* it looks at the zones
hostnameUpstreamsPresetKey(hostname, res, order) ==
    IF res.t # "object"
    THEN [panicked |-> TRUE, m |-> EmptyMap]
    ELSE [panicked |-> FALSE,
          m |-> rangeZones(hostname, res.m, order, 1, [k \in {hostname} |-> <<>>])]

\* `panicked` is the failed type assertion res.(map[string]interface{})
hostnameUpstreamsFromResponse(hostname, res, order) ==
    IF res.t # "object"
    THEN [panicked |-> TRUE, m |-> EmptyMap]
    ELSE [panicked |-> FALSE, m |-> rangeZones(hostname, res.m, order, 1, EmptyMap)]

\* the iteration orders the range loop over `res` may take
RangeOrders(res) == Orders(DOMAIN res.m)

GetUpstreamsFor(hostname, order) ==
    LET r == get(ZonesURL(c), "interface", NilInterface) IN
    IF r.err # NilErr
    THEN [panicked |-> FALSE, m |-> EmptyMap, isnil |-> TRUE,
          err |-> Errorf("retrieving zones", r.err), response |-> r.data, http |-> r.http]
    ELSE LET h == hostnameUpstreamsFromResponse(hostname, r.data, order) IN
         [panicked |-> h.panicked, m |-> h.m, isnil |-> FALSE,
          err |-> NilErr, response |-> r.data, http |-> r.http]

----------------------------------------------------------------------------
(* Construction: NewClient and its options.                                *)

\* the value of a *Client that is nil
NilClient == [version |-> 0, baseURL |-> "", httpClient |-> "nil"]

\* an `option` value, by the function that made it and its argument
WithVersionOpt(v) == [kind |-> "WithVersion", v |-> v, h |-> "nil"]
WithHTTPClientOpt(h) == [kind |-> "WithHTTPClient", v |-> 0, h |-> h]

DefaultVersion == 8

\* a version check that accepts everything from 4 up
WithVersionFrom4(cl, v) ==
    IF v >= 4
    THEN [c |-> [cl EXCEPT !.version = v], err |-> NilErr]
    ELSE [c |-> cl, err |-> ErrorfCode("unsupported NGINX version", v)]

\* the closure WithVersion(v) applied to the client cl
WithVersion(cl, v) ==
    IF v \in {4, 5, 6, 7, 8}
    THEN [c |-> [cl EXCEPT !.version = v], err |-> NilErr]
    ELSE [c |-> cl, err |-> ErrorfCode("unsupported NGINX version", v)]

\* the closure WithHTTPClient(h) applied to the client cl
WithHTTPClient(cl, h) ==
    IF h = "nil"
    THEN [c |-> cl, err |-> ErrorsNew("nil http client")]
    ELSE [c |-> [cl EXCEPT !.httpClient = h], err |-> NilErr]

\* opt(&c)
ApplyOption(opt, cl) ==
    IF opt.kind = "WithVersion" THEN WithVersion(cl, opt.v) ELSE WithHTTPClient(cl, opt.h)

RECURSIVE applyOptsSkipFailed(_, _, _)
\* a loop that skips an option that fails and goes on with the next
applyOptsSkipFailed(cl, opts, i) ==
    IF i > Len(opts) THEN [c |-> cl, err |-> NilErr, applied |-> Len(opts)]
    ELSE applyOptsSkipFailed(ApplyOption(opts[i], cl).c, opts, i + 1)

RECURSIVE applyOpts(_, _, _)
\* the loop `for _, opt := range opts { if err := opt(&c); err != nil { return nil, err } }`
\* from index i on; `applied` counts the options that were called
applyOpts(cl, opts, i) ==
    IF i > Len(opts) THEN [c |-> cl, err |-> NilErr, applied |-> Len(opts)]
    ELSE LET r == ApplyOption(opts[i], cl) IN
         IF r.err # NilErr
         THEN [c |-> r.c, err |-> r.err, applied |-> i]
         ELSE applyOpts(r.c, opts, i + 1)

\* func NewClient(baseURL string, opts ...option) (*Client, error)
NewClient(baseURL, opts) ==
    IF baseURL = ""
    THEN [isnil |-> TRUE, c |-> NilClient, err |-> ErrorsNew("invalid base URL"), applied |-> 0]
    ELSE LET cl == [version |-> DefaultVersion, baseURL |-> baseURL, httpClient |-> "default"]
             r == applyOpts(cl, opts, 1)
         IN IF r.err # NilErr
            THEN [isnil |-> TRUE, c |-> NilClient, err |-> r.err, applied |-> r.applied]
            ELSE [isnil |-> FALSE, c |-> r.c, err |-> NilErr, applied |-> r.applied]

\* a NewClient call with its arguments and what it returned
Built(baseURL, opts) ==
    LET r == NewClient(baseURL, opts) IN
    [called |-> TRUE, baseURL |-> baseURL, opts |-> opts, isnil |-> r.isnil,
     err |-> r.err, applied |-> r.applied]

NotBuilt ==
    [called |-> FALSE, baseURL |-> "", opts |-> <<>>, isnil |-> TRUE,
     err |-> NilErr, applied |-> 0]

----------------------------------------------------------------------------
(* State of one call.                                                      *)

\* the value an operation hands back: Stats, error and (for GetUpstreamsFor)
\* the hostname -> upstream names mapping
Ret(stats, err, m) == [stats |-> stats, err |-> err, m |-> m]
NoRet == Ret(ZeroStats, NilErr, EmptyMap)

Op(name, upstream, hostname, list) ==
    [name |-> name, upstream |-> upstream, hostname |-> hostname, list |-> list]
NoOp == Op("none", "", <<>>, <<>>)

NoResolved ==
    [panicked |-> FALSE, m |-> EmptyMap, isnil |-> TRUE, err |-> NilErr,
     response |-> NilInterface, http |-> <<>>]

NoLast ==
    [set |-> FALSE, input |-> <<>>, gres |-> <<>>, finished |-> <<>>, stats |-> ZeroStats]

NoGres == [stats |-> ZeroStats, err |-> NilErr, http |-> <<>>]

\* the caller may start an operation when none is in progress
Callable == pc \in {"idle", "returned"}

\* what no operation of the first caller writes: the remote, the client, the
\* caller's context, the locals of the second caller's call
world == <<server, zones, c, nc, ctx, other>>

\* a call that has a fetch of upstream "a" under way whatever it returns
FetchRegardless ==
    /\ upstreams' = <<"a">>
    /\ nxt' = 2
    /\ gpc' = <<"fetch">>
    /\ gres' = <<NoGres>>
    /\ total' = 0
    /\ up' = 0
    /\ down' = 0
    /\ wg' = 1
    /\ finished' = <<>>

\* the locals of the aggregator, untouched by the single-request operations
NoFanOut ==
    /\ upstreams' = <<>>
    /\ nxt' = 1
    /\ gpc' = <<>>
    /\ gres' = <<>>
    /\ total' = 0
    /\ up' = 0
    /\ down' = 0
    /\ wg' = 0
    /\ finished' = <<>>

----------------------------------------------------------------------------
(* Concurrent aggregator: GetStatsForUpstreams.                            *)

\* a lost update: the addition overwrites what the other goroutines added
LostUpdateAdd(old, delta) == delta

\* atomic.AddUint64(addr, delta): one indivisible read-add-write.  The sums
\* are bounded by the number of peers fetched, far below 2^64, so the
\* wrap-around of uint64 never occurs.
AtomicAddUint64(old, delta) == old + delta

\* a Wait that does not block
WaitNoBarrier(counter) == TRUE

\* wg.Wait() returns when the counter is zero
WaitUnblocked(counter) == counter = 0

RECURSIVE Dedup(_)
\* the list l without the repeated occurrences of a name
Dedup(l) ==
    IF l = <<>> THEN <<>>
    ELSE LET front == Dedup(SubSeq(l, 1, Len(l) - 1)) IN
         IF l[Len(l)] \in Range(front) THEN front ELSE Append(front, l[Len(l)])

\* an entry that fetches every distinct name once
EnterDeduplicated(l) ==
    /\ upstreams' = Dedup(l)
    /\ total' = 0
    /\ up' = 0
    /\ down' = 0
    /\ wg' = Len(Dedup(l))
    /\ finished' = <<>>
    /\ nxt' = 1
    /\ gpc' = [i \in 1..Len(Dedup(l)) |-> "idle"]
    /\ gres' = [i \in 1..Len(Dedup(l)) |-> NoGres]
    /\ pc' = IF Len(Dedup(l)) = 0 THEN "waiting" ELSE "launching"

\* `var total, up, down uint64; var wg sync.WaitGroup; wg.Add(len(upstreams))`
\* and the position at the head of the range loop
EnterGetStatsForUpstreams(l) ==
    /\ upstreams' = l
    /\ total' = 0
    /\ up' = 0
    /\ down' = 0
    /\ wg' = Len(l)
    /\ finished' = <<>>
    /\ nxt' = 1
    /\ gpc' = [i \in 1..Len(l) |-> "idle"]
    /\ gres' = [i \in 1..Len(l) |-> NoGres]
    /\ pc' = IF Len(l) = 0 THEN "waiting" ELSE "launching"

\* the public call GetStatsForUpstreams(ctx, l), up to the head of the loop
BeginGetStatsForUpstreams(l) ==
    /\ Callable
    /\ op' = Op("GetStatsForUpstreams", "", <<>>, l)
    /\ resolved' = NoResolved
    /\ ret' = NoRet
    /\ log' = <<>>
    /\ sent' = 0
    /\ EnterGetStatsForUpstreams(l)
    /\ UNCHANGED world

CallGetStatsForUpstreams(l) ==
    /\ BeginGetStatsForUpstreams(l)
    /\ UNCHANGED last

\* a loop that starts a goroutine only when none is running
LaunchOneAtATime ==
    /\ pc = "launching"
    /\ nxt <= Len(upstreams)
    /\ \A i \in DOMAIN gpc : gpc[i] \in {"idle", "done"}
    /\ gpc' = [gpc EXCEPT ![nxt] = "fetch"]
    /\ nxt' = nxt + 1
    /\ pc' = IF nxt + 1 > Len(upstreams) THEN "waiting" ELSE "launching"
    /\ UNCHANGED <<world, last, log, sent, op, resolved, upstreams, gres, total, up, down, wg, finished, ret>>

\* one iteration of `for _, u := range upstreams { go func(upstream string) {...}(u) }`
Launch ==
    /\ pc = "launching"
    /\ nxt <= Len(upstreams)
    /\ gpc' = [gpc EXCEPT ![nxt] = "fetch"]
    /\ nxt' = nxt + 1
    /\ pc' = IF nxt + 1 > Len(upstreams) THEN "waiting" ELSE "launching"
    /\ UNCHANGED <<world, last, log, sent, op, resolved, upstreams, gres, total, up, down, wg, finished, ret>>

\* goroutine i: `stat, err := c.GetStatsFor(ctx, upstream); if err != nil { return }`
Fetch(i) ==
    /\ i \in DOMAIN gpc
    /\ gpc[i] = "fetch"
    /\ ~Blocks(UpstreamURL(c, upstreams[i]))
    /\ LET r == GetStatsFor(upstreams[i]) IN
       /\ gres' = [gres EXCEPT ![i] = r]
       /\ sent' = sent + Len(r.http)
       /\ gpc' = [gpc EXCEPT ![i] = IF r.err # NilErr THEN "wgDone" ELSE "addTotal"]
    /\ UNCHANGED <<world, last, log, pc, op, resolved, upstreams, nxt, total, up, down, wg, finished, ret>>

\* goroutine i: atomic.AddUint64(&total, uint64(stat.Total))
AddTotal(i) ==
    /\ i \in DOMAIN gpc
    /\ gpc[i] = "addTotal"
    /\ total' = AtomicAddUint64(total, gres[i].stats.Total)
    /\ gpc' = [gpc EXCEPT ![i] = "addUp"]
    /\ UNCHANGED <<world, last, log, sent, pc, op, resolved, upstreams, nxt, gres, up, down, wg, finished, ret>>

\* goroutine i: atomic.AddUint64(&up, uint64(stat.Up))
AddUp(i) ==
    /\ i \in DOMAIN gpc
    /\ gpc[i] = "addUp"
    /\ up' = AtomicAddUint64(up, gres[i].stats.Up)
    /\ gpc' = [gpc EXCEPT ![i] = "addDown"]
    /\ UNCHANGED <<world, last, log, sent, pc, op, resolved, upstreams, nxt, gres, total, down, wg, finished, ret>>

\* goroutine i: atomic.AddUint64(&down, uint64(stat.Down))
AddDown(i) ==
    /\ i \in DOMAIN gpc
    /\ gpc[i] = "addDown"
    /\ down' = AtomicAddUint64(down, gres[i].stats.Down)
    /\ gpc' = [gpc EXCEPT ![i] = "wgDone"]
    /\ UNCHANGED <<world, last, log, sent, pc, op, resolved, upstreams, nxt, gres, total, up, wg, finished, ret>>

\* goroutine i: the deferred wg.Done(), on either way out of the function
WgDone(i) ==
    /\ i \in DOMAIN gpc
    /\ gpc[i] = "wgDone"
    /\ wg' = wg - 1
    /\ finished' = Append(finished, i)
    /\ gpc' = [gpc EXCEPT ![i] = "done"]
    /\ UNCHANGED <<world, last, log, sent, pc, op, resolved, upstreams, nxt, gres, total, up, down, ret>>

\* a return that reports an error when no fetch added anything
WaitReturnReportsFailure ==
    /\ pc = "waiting"
    /\ WaitUnblocked(wg)
    /\ ret' = Ret(Stats(total, up, down),
                  IF total = 0 THEN ErrorsNew("no upstream answered") ELSE NilErr, EmptyMap)
    /\ pc' = "returned"
    /\ UNCHANGED <<world, last, log, sent, op, resolved, upstreams, nxt, gpc, gres, total, up, down, wg, finished>>

\* `wg.Wait(); return Stats{Total: int(total), Up: int(up), Down: int(down)}`;
\* when the call came from GetStatsForHost, its `return ..., nil` follows
WaitReturn ==
    /\ pc = "waiting"
    /\ WaitUnblocked(wg)
    /\ ret' = Ret(Stats(total, up, down), NilErr, EmptyMap)
    /\ pc' = "returned"
    /\ UNCHANGED <<world, last, log, sent, op, resolved, upstreams, nxt, gpc, gres, total, up, down, wg, finished>>

----------------------------------------------------------------------------
(* The single-request operations and GetStatsForHost.                      *)

\* a GetStatsFor that writes the version field of its receiver
CallGetStatsForSetsVersion(u) ==
    /\ Callable
    /\ ~Blocks(UpstreamURL(c, u))
    /\ op' = Op("GetStatsFor", u, <<>>, <<>>)
    /\ resolved' = NoResolved
    /\ LET r == GetStatsFor(u) IN
       /\ ret' = Ret(r.stats, r.err, EmptyMap)
       /\ log' = r.http
       /\ sent' = Len(r.http)
    /\ pc' = "returned"
    /\ NoFanOut
    /\ c' = [c EXCEPT !.version = 4]
    /\ UNCHANGED <<server, zones, nc, ctx, other, last>>

\* the public call GetStatsFor(ctx, u)
CallGetStatsFor(u) ==
    /\ Callable
    /\ ~Blocks(UpstreamURL(c, u))
    /\ op' = Op("GetStatsFor", u, <<>>, <<>>)
    /\ resolved' = NoResolved
    /\ LET r == GetStatsFor(u) IN
       /\ ret' = Ret(r.stats, r.err, EmptyMap)
       /\ log' = r.http
       /\ sent' = Len(r.http)
    /\ pc' = "returned"
    /\ NoFanOut
    /\ UNCHANGED <<world, last>>

\* the public call GetUpstreamsFor(ctx, h)
CallGetUpstreamsFor(h) ==
    /\ Callable
    /\ ~Blocks(ZonesURL(c))
    /\ op' = Op("GetUpstreamsFor", "", h, <<>>)
    /\ \E order \in RangeOrders(get(ZonesURL(c), "interface", NilInterface).data) :
         LET r == GetUpstreamsFor(h, order) IN
         /\ resolved' = r
         /\ log' = r.http
         /\ sent' = Len(r.http)
         /\ IF r.panicked
            THEN ret' = NoRet /\ pc' = "panicked"
            ELSE ret' = Ret(ZeroStats, r.err, r.m) /\ pc' = "returned"
    /\ NoFanOut
    /\ UNCHANGED <<world, last>>

\* a lookup that reports every key as present, with the zero value
MapLookupAlwaysOK(m, k) ==
    [ok |-> TRUE, v |-> IF k \in DOMAIN m THEN m[k] ELSE <<>>]

\* a lookup that reports every key as absent
MapLookupNeverOK(m, k) == [ok |-> FALSE, v |-> <<>>]

\* `v, ok := m[k]` on a Go map (a nil map has no keys)
MapLookup(m, k) ==
    [ok |-> k \in DOMAIN m, v |-> IF k \in DOMAIN m THEN m[k] ELSE <<>>]

\* the public call GetStatsForHost(ctx, h), up to and including the entry
\* into GetStatsForUpstreams
CallGetStatsForHost(h) ==
    /\ Callable
    /\ ~Blocks(ZonesURL(c))
    /\ op' = Op("GetStatsForHost", "", h, <<>>)
    /\ \E order \in RangeOrders(get(ZonesURL(c), "interface", NilInterface).data) :
         LET r == GetUpstreamsFor(h, order) IN
         /\ resolved' = r
         /\ log' = r.http
         /\ sent' = Len(r.http)
         /\ IF r.panicked
            THEN ret' = NoRet /\ pc' = "panicked" /\ NoFanOut
            ELSE IF r.err # NilErr
            THEN /\ ret' = Ret(ZeroStats, Errorf("getting stats for host", r.err), EmptyMap)
                 /\ pc' = "returned"
                 /\ NoFanOut
            ELSE LET ux == MapLookup(r.m, h) IN
                 IF ~ux.ok
                 THEN /\ ret' = Ret(ZeroStats, ErrorsNew("no stat data for host"), EmptyMap)
                      /\ pc' = "returned"
                      /\ NoFanOut
                 ELSE /\ ret' = NoRet
                      /\ EnterGetStatsForUpstreams(ux.v)
    /\ UNCHANGED <<world, last>>

----------------------------------------------------------------------------
(* The client with every public operation, one caller, a fixed remote.     *)

\* the client NewClient builds from a well-formed base URL and no option
ClientDefault == NewClient("http://nginx", <<>>).c

\* the second caller before its call
NoOther ==
    [pc |-> "idle", upstreams |-> <<>>, nxt |-> 1, gpc |-> <<>>, gres |-> <<>>,
     total |-> 0, up |-> 0, down |-> 0, wg |-> 0, ret |-> ZeroStats]

Locals0 ==
    /\ other = NoOther
    /\ ctx = "live"
    /\ pc = "idle"
    /\ op = NoOp
    /\ resolved = NoResolved
    /\ upstreams = <<>>
    /\ nxt = 1
    /\ gpc = <<>>
    /\ gres = <<>>
    /\ total = 0
    /\ up = 0
    /\ down = 0
    /\ wg = 0
    /\ finished = <<>>
    /\ log = <<>>
    /\ sent = 0
    /\ ret = NoRet
    /\ last = NoLast

\* answers of the remote to /http/upstreams/{name}: each failure of the
\* transport, an object without peers, and two healthy answers
UpstreamResponses ==
    { RespNetErr,
      RespStatus(500, JsonUpstream(<<"up", "up">>)),
      RespOK(JsonScalar("invalid")),
      RespOK(JsonUpstream(<<>>)),
      RespOK(JsonUpstream(<<"up", "down">>)),
      RespOK(JsonUpstream(<<"up", "up">>)) }

ZoneOf(s) == ZoneEntry("object", "string", s)

\* answers of the remote to /http/upstreams?fields=zone
ZoneResponses ==
    { RespNetErr,
      RespOK(JsonScalar("null")),
      RespOK(JsonScalar("array")),
      RespOK(JsonZones([n \in Names |->
          IF n = "a" THEN ZoneOf(<<"h", "-", "g">>) ELSE ZoneOf(<<"h">>)])),
      RespOK(JsonZones([n \in Names |->
          IF n = "a" THEN ZoneOf(<<"h", "-", "g">>) ELSE ZoneOf(<<"g">>)])),
      RespOK(JsonZones([n \in Names |->
          IF n = "a" THEN ZoneOf(<<"g", "-", "h">>) ELSE ZoneEntry("string", "missing", <<>>)])) }

Hostnames == {<<"h">>, <<"g">>}

Lists == SeqsUpTo(Names, MaxUpstreams)

Init ==
    /\ server \in [Names -> UpstreamResponses]
    /\ zones \in ZoneResponses
    /\ c = ClientDefault
    /\ nc = Built("http://nginx", <<>>)
    /\ Locals0

\* one step of one launched goroutine
Goroutine ==
    \/ \E i \in DOMAIN gpc : Fetch(i)
    \/ \E i \in DOMAIN gpc : AddTotal(i)
    \/ \E i \in DOMAIN gpc : AddUp(i)
    \/ \E i \in DOMAIN gpc : AddDown(i)
    \/ \E i \in DOMAIN gpc : WgDone(i)

Next ==
    \/ \E u \in Names : CallGetStatsFor(u)
    \/ \E h \in Hostnames : CallGetUpstreamsFor(h)
    \/ \E h \in Hostnames : CallGetStatsForHost(h)
    \/ \E l \in Lists : CallGetStatsForUpstreams(l)
    \/ Launch
    \/ Goroutine
    \/ WaitReturn

Spec == Init /\ [][Next]_vars

----------------------------------------------------------------------------
(* Two consecutive GetStatsForUpstreams calls over one fixed remote, the   *)
(* second on a rearrangement of the first call's list; the caller keeps    *)
(* the first call's input, outcomes and result in `last`.                  *)

InitPerm ==
    /\ server \in [Names -> UpstreamResponses]
    /\ zones = RespNetErr
    /\ c = ClientDefault
    /\ nc = Built("http://nginx", <<>>)
    /\ Locals0

FirstCall ==
    /\ pc = "idle"
    /\ \E l \in Lists : CallGetStatsForUpstreams(l)

SecondCall ==
    /\ pc = "returned"
    /\ ~last.set
    /\ \E l \in Permutations(upstreams) : BeginGetStatsForUpstreams(l)
    /\ last' = [set |-> TRUE, input |-> upstreams, gres |-> gres,
                finished |-> finished, stats |-> ret.stats]

NextPerm ==
    \/ FirstCall
    \/ SecondCall
    \/ Launch
    \/ Goroutine
    \/ WaitReturn

SpecPerm == InitPerm /\ [][NextPerm]_vars

----------------------------------------------------------------------------
(* One GetStatsFor call over a remote whose answer for upstream "a" ranges *)
(* over every failure of the transport and every peer list up to MaxPeers. *)

RichUpstreamResponses ==
    { RespNetErr, RespReadErr, RespStatus(404, JsonUpstream(<<"up">>)) }
    \cup { RespOK(JsonScalar(t)) : t \in {"invalid", "null", "array"} }
    \cup { RespOK(JsonUpstream(p)) : p \in SeqsUpTo(PeerStates, MaxPeers) }
    \cup { RespOK(JsonMistyped(<<"up", "down">>)) }

InitCalc ==
    /\ server \in { [n \in Names |-> IF n = "a" THEN r ELSE RespOK(JsonUpstream(<<"up">>))] :
                      r \in RichUpstreamResponses }
    /\ zones = RespNetErr
    /\ c = ClientDefault
    /\ nc = Built("http://nginx", <<>>)
    /\ Locals0

NextCalc ==
    /\ pc = "idle"
    /\ \E u \in Names : CallGetStatsFor(u)

SpecCalc == InitCalc /\ [][NextCalc]_vars

----------------------------------------------------------------------------
(* One GetUpstreamsFor call over a remote whose zone map ranges over every *)
(* map on a subset of Names with every kind of entry and every zone string *)
(* up to MaxZoneLen, for every requested hostname up to MaxHostLen.        *)

ZoneEntries ==
    { ZoneEntry("string", "missing", <<>>),
      ZoneEntry("object", "missing", <<>>),
      ZoneEntry("object", "number", <<>>) }
    \cup { ZoneOf(s) : s \in SeqsUpTo(Chars, MaxZoneLen) }

ZoneMaps == UNION { [D -> ZoneEntries] : D \in SUBSET Names }

RichZoneResponses ==
    { RespNetErr, RespStatus(500, JsonZones(EmptyMap)), RespOK(JsonScalar("invalid")) }
    \cup { RespOK(JsonZones(m)) : m \in ZoneMaps }

InitZones ==
    /\ server = [n \in Names |-> RespNetErr]
    /\ zones \in RichZoneResponses
    /\ c = ClientDefault
    /\ nc = Built("http://nginx", <<>>)
    /\ Locals0

NextZones ==
    /\ pc = "idle"
    /\ \E h \in SeqsUpTo(Chars, MaxHostLen) : CallGetUpstreamsFor(h)

SpecZones == InitZones /\ [][NextZones]_vars

----------------------------------------------------------------------------
(* One GetUpstreamsFor or GetStatsForHost call against the zone strings of  *)
(* the documentation, or against a zones endpoint that fails.              *)

DemoBackend == <<"d", "e", "m", "o", "-", "b", "a", "c", "k", "e", "n", "d">>
Demo == <<"d", "e", "m", "o">>
BarLxrBackend ==
    <<"b", "a", "r", ".", "e", "x", "a", "m", "p", "l", "e", ".", "o", "r", "g",
      "-", "l", "x", "r", "-", "b", "a", "c", "k", "e", "n", "d">>
BarExampleOrg ==
    <<"b", "a", "r", ".", "e", "x", "a", "m", "p", "l", "e", ".", "o", "r", "g">>

DemoZoneEntries ==
    { ZoneOf(DemoBackend), ZoneOf(Demo), ZoneOf(BarLxrBackend),
      ZoneEntry("object", "missing", <<>>) }

DemoZoneMaps == UNION { [D -> DemoZoneEntries] : D \in SUBSET Names }

\* the zone "bar.example.org-lxr-backend" up to its second "-"
BarExampleOrgLxr ==
    <<"b", "a", "r", ".", "e", "x", "a", "m", "p", "l", "e", ".", "o", "r", "g",
      "-", "l", "x", "r">>

DemoHostnames == {DemoBackend, Demo, BarLxrBackend, BarExampleOrg, BarExampleOrgLxr}

\* what the zones endpoint answers: a JSON object of zone entries, or a
\* failure of the exchange
DemoZoneResponses ==
    { RespOK(JsonZones(m)) : m \in DemoZoneMaps } \cup {RespNetErr, RespStatus(404, JsonScalar("null"))}

InitDemo ==
    /\ server = [n \in Names |->
           IF n = "a" THEN RespOK(JsonUpstream(<<"up", "down">>)) ELSE RespNetErr]
    /\ zones \in DemoZoneResponses
    /\ c = ClientDefault
    /\ nc = Built("http://nginx", <<>>)
    /\ Locals0

DemoGetUpstreamsFor ==
    /\ pc = "idle"
    /\ \E h \in DemoHostnames : CallGetUpstreamsFor(h)

DemoGetStatsForHost ==
    /\ pc = "idle"
    /\ \E h \in DemoHostnames : CallGetStatsForHost(h)

NextDemo ==
    \/ DemoGetUpstreamsFor
    \/ DemoGetStatsForHost
    \/ Launch
    \/ Goroutine
    \/ WaitReturn

SpecDemo == InitDemo /\ [][NextDemo]_vars

----------------------------------------------------------------------------
(* Construction of a client from every base URL and every list of up to    *)
(* MaxOpts options, followed by GetStatsFor calls on the client built.     *)

MaxOpts == 2

MalformedBase == "://nginx"
BaseURLs == {"", "http://nginx", MalformedBase}
VersionsTried == {3, 4, 5, 6, 7, 8, 9, 99}
HTTPClientsTried == {"nil", "h1", "h2"}

Options ==
    {WithVersionOpt(v) : v \in VersionsTried}
    \cup {WithHTTPClientOpt(h) : h \in HTTPClientsTried}

callState ==
    <<ctx, pc, op, resolved, upstreams, nxt, gpc, gres, total, up, down, wg, finished,
      log, sent, ret>>

\* the call NewClient(baseURL, opts...)
CallNewClient(baseURL, opts) ==
    /\ ~nc.called
    /\ nc' = Built(baseURL, opts)
    /\ c' = NewClient(baseURL, opts).c
    /\ UNCHANGED <<server, zones, callState, last, other>>

\* GetStatsFor on the client that NewClient returned
UseClient ==
    /\ nc.called
    /\ ~nc.isnil
    /\ \E u \in Names : CallGetStatsFor(u)

InitNew ==
    /\ server = [n \in Names |->
           IF n = "a" THEN RespOK(JsonUpstream(<<"up", "down">>)) ELSE RespNetErr]
    /\ zones = RespNetErr
    /\ c = NilClient
    /\ nc = NotBuilt
    /\ Locals0

NextNew ==
    \/ \E b \in BaseURLs : \E opts \in SeqsUpTo(Options, MaxOpts) : CallNewClient(b, opts)
    \/ UseClient

SpecNew == InitNew /\ [][NextNew]_vars

----------------------------------------------------------------------------
(* One GetStatsForUpstreams call while the caller may cancel its context,  *)
(* over remotes that answer, fail or never answer, through the default     *)
(* HTTP client or one with a Timeout.  Every goroutine that can take a     *)
(* step eventually takes one.                                              *)

CtxResponses == { RespHang, RespNetErr, RespOK(JsonUpstream(<<"up", "down">>)) }

CtxClients == { <<>>, <<WithHTTPClientOpt("h1")>> }

\* the caller's cancel() while the call is in progress
Cancel ==
    /\ pc \in {"launching", "waiting"}
    /\ ctx = "live"
    /\ ctx' = "cancelled"
    /\ UNCHANGED <<server, zones, c, nc, other, last, log, sent, pc, op, resolved, upstreams,
                   nxt, gpc, gres, total, up, down, wg, finished, ret>>

InitCtx ==
    /\ server \in [Names -> CtxResponses]
    /\ zones = RespNetErr
    /\ \E opts \in CtxClients :
          /\ c = NewClient("http://nginx", opts).c
          /\ nc = Built("http://nginx", opts)
    /\ Locals0

NextCtx ==
    \/ FirstCall
    \/ Launch
    \/ Goroutine
    \/ WaitReturn
    \/ Cancel

\* the Go scheduler runs every goroutine that is not blocked
FairCtx ==
    /\ WF_vars(Launch)
    /\ WF_vars(WaitReturn)
    /\ \A i \in 1..MaxUpstreams :
          WF_vars(Fetch(i) \/ AddTotal(i) \/ AddUp(i) \/ AddDown(i) \/ WgDone(i))

SpecCtx == InitCtx /\ [][NextCtx]_vars /\ FairCtx

----------------------------------------------------------------------------
(* Two callers, each making one GetStatsForUpstreams call on the same      *)
(* client at the same time.  The first caller runs the actions above; the  *)
(* second caller's call has its own locals, kept in `other`, and takes     *)
(* the same steps on them.                                                 *)

MaxConcurrentLen == 2      \* longest list of each of the two concurrent calls

\* everything but the locals of the second caller's call
first ==
    <<server, zones, c, nc, ctx, pc, op, resolved, upstreams, nxt, gpc, gres,
      total, up, down, wg, finished, log, sent, ret, last>>

\* the second caller's GetStatsForUpstreams(ctx, l) up to the head of the loop
OtherCall(l) ==
    /\ other.pc = "idle"
    /\ other' = [pc |-> IF Len(l) = 0 THEN "waiting" ELSE "launching",
                 upstreams |-> l, nxt |-> 1,
                 gpc |-> [i \in 1..Len(l) |-> "idle"],
                 gres |-> [i \in 1..Len(l) |-> NoGres],
                 total |-> 0, up |-> 0, down |-> 0, wg |-> Len(l), ret |-> ZeroStats]
    /\ UNCHANGED first

OtherLaunch ==
    /\ other.pc = "launching"
    /\ other.nxt <= Len(other.upstreams)
    /\ other' = [other EXCEPT
                    !.gpc[other.nxt] = "fetch",
                    !.nxt = @ + 1,
                    !.pc = IF other.nxt + 1 > Len(other.upstreams)
                           THEN "waiting" ELSE "launching"]
    /\ UNCHANGED first

OtherFetch(i) ==
    /\ i \in DOMAIN other.gpc
    /\ other.gpc[i] = "fetch"
    /\ ~Blocks(UpstreamURL(c, other.upstreams[i]))
    /\ LET r == GetStatsFor(other.upstreams[i]) IN
       other' = [other EXCEPT
                    !.gres[i] = r,
                    !.gpc[i] = IF r.err # NilErr THEN "wgDone" ELSE "addTotal"]
    /\ UNCHANGED first

\* an addition to an accumulator that the calls on one client share
OtherAddTotalShared(i) ==
    /\ i \in DOMAIN other.gpc
    /\ other.gpc[i] = "addTotal"
    /\ total' = AtomicAddUint64(total, other.gres[i].stats.Total)
    /\ other' = [other EXCEPT !.gpc[i] = "addUp"]
    /\ UNCHANGED <<server, zones, c, nc, ctx, pc, op, resolved, upstreams, nxt, gpc, gres,
                   up, down, wg, finished, log, sent, ret, last>>

OtherAddTotal(i) ==
    /\ i \in DOMAIN other.gpc
    /\ other.gpc[i] = "addTotal"
    /\ other' = [other EXCEPT
                    !.total = AtomicAddUint64(@, other.gres[i].stats.Total),
                    !.gpc[i] = "addUp"]
    /\ UNCHANGED first

OtherAddUp(i) ==
    /\ i \in DOMAIN other.gpc
    /\ other.gpc[i] = "addUp"
    /\ other' = [other EXCEPT
                    !.up = AtomicAddUint64(@, other.gres[i].stats.Up),
                    !.gpc[i] = "addDown"]
    /\ UNCHANGED first

OtherAddDown(i) ==
    /\ i \in DOMAIN other.gpc
    /\ other.gpc[i] = "addDown"
    /\ other' = [other EXCEPT
                    !.down = AtomicAddUint64(@, other.gres[i].stats.Down),
                    !.gpc[i] = "wgDone"]
    /\ UNCHANGED first

OtherWgDone(i) ==
    /\ i \in DOMAIN other.gpc
    /\ other.gpc[i] = "wgDone"
    /\ other' = [other EXCEPT !.wg = @ - 1, !.gpc[i] = "done"]
    /\ UNCHANGED first

OtherWaitReturn ==
    /\ other.pc = "waiting"
    /\ WaitUnblocked(other.wg)
    /\ other' = [other EXCEPT
                    !.ret = Stats(other.total, other.up, other.down),
                    !.pc = "returned"]
    /\ UNCHANGED first

\* one step of one goroutine of the second caller's call
OtherGoroutine ==
    \/ \E i \in DOMAIN other.gpc : OtherFetch(i)
    \/ \E i \in DOMAIN other.gpc : OtherAddTotal(i)
    \/ \E i \in DOMAIN other.gpc : OtherAddUp(i)
    \/ \E i \in DOMAIN other.gpc : OtherAddDown(i)
    \/ \E i \in DOMAIN other.gpc : OtherWgDone(i)

ConcurrentLists == SeqsUpTo(Names, MaxConcurrentLen)

InitTwo ==
    /\ server = [n \in Names |->
           IF n = "a" THEN RespOK(JsonUpstream(<<"up", "down">>)) ELSE RespNetErr]
    /\ zones = RespNetErr
    /\ c = ClientDefault
    /\ nc = Built("http://nginx", <<>>)
    /\ Locals0

FirstOfTwo ==
    /\ pc = "idle"
    /\ \E l \in ConcurrentLists : CallGetStatsForUpstreams(l)

NextTwo ==
    \/ FirstOfTwo
    \/ Launch
    \/ Goroutine
    \/ WaitReturn
    \/ \E l \in ConcurrentLists : OtherCall(l)
    \/ OtherLaunch
    \/ OtherGoroutine
    \/ OtherWaitReturn

SpecTwo == InitTwo /\ [][NextTwo]_vars

----------------------------------------------------------------------------
(* Properties.                                                             *)

\* the sum, field by field, of GetStatsFor over the elements of l whose
\* fetch succeeds against the remote
SumStats(l) ==
    LET R == [i \in DOMAIN l |-> GetStatsFor(l[i])]
        S == {i \in DOMAIN l : R[i].err = NilErr}
    IN Stats(SumOver([i \in DOMAIN l |-> R[i].stats.Total], S),
             SumOver([i \in DOMAIN l |-> R[i].stats.Up], S),
             SumOver([i \in DOMAIN l |-> R[i].stats.Down], S))

Returned(name) == pc = "returned" /\ op.name = name

\* C1: when GetStatsForUpstreams has returned, under every interleaving of
\* its goroutines, each of Total, Up and Down is exactly the sum of that
\* field over the fetches that succeeded; failed fetches add nothing and the
\* call itself does not fail.
C1_SumOfSucceeded ==
    Returned("GetStatsForUpstreams") =>
        /\ ret.stats = SumStats(upstreams)
        /\ ret.err = NilErr
        /\ \A i \in DOMAIN upstreams : gres[i] = GetStatsFor(upstreams[i])

\* a returned call over two upstreams of which one failed and the other
\* contributed its counts
C1_Witness ==
    /\ Returned("GetStatsForUpstreams")
    /\ Len(upstreams) = 2
    /\ gres[1].err = NilErr
    /\ gres[2].err # NilErr
    /\ ret.stats = gres[1].stats
    /\ ret.stats.Total > 0

\* C2: once GetStatsForUpstreams has read the accumulators and returned,
\* every goroutine it launched has run to its end (all additions made, the
\* WaitGroup released), so nothing can change the totals afterwards.
C2_BarrierBeforeReturn ==
    (pc = "returned" /\ op.name \in {"GetStatsForUpstreams", "GetStatsForHost"}) =>
        /\ wg = 0
        /\ nxt = Len(upstreams) + 1
        /\ \A i \in DOMAIN gpc : gpc[i] = "done"

\* a returned call whose two goroutines both succeeded and finished
C2_Witness ==
    /\ Returned("GetStatsForUpstreams")
    /\ Len(upstreams) = 2
    /\ \A i \in DOMAIN gpc : gpc[i] = "done" /\ gres[i].err = NilErr
    /\ total = gres[1].stats.Total + gres[2].stats.Total

\* C3: a GetStatsForUpstreams call on a rearrangement of the previous call's
\* list, over the same remote, returns the Stats the previous call returned.
C3_OrderIndependent ==
    (Returned("GetStatsForUpstreams") /\ last.set
        /\ upstreams \in Permutations(last.input)) =>
        ret.stats = last.stats

\* both calls have returned, the second on a different ordering of two
\* upstreams that both succeed with different counts
C3_Witness ==
    /\ Returned("GetStatsForUpstreams")
    /\ last.set
    /\ Len(upstreams) = 2
    /\ upstreams # last.input
    /\ upstreams \in Permutations(last.input)
    /\ gres[1].err = NilErr
    /\ gres[2].err = NilErr
    /\ gres[1].stats # gres[2].stats
    /\ ret.stats = last.stats

\* C4: two calls over the same list in which the same fetches succeed with
\* the same counts return the same Stats, whatever the order in which their
\* goroutines completed.
C4_ScheduleIndependent ==
    (Returned("GetStatsForUpstreams") /\ last.set
        /\ upstreams = last.input /\ gres = last.gres) =>
        ret.stats = last.stats

\* the same list was aggregated twice, its two successful fetches finished
\* in opposite orders in the two runs, and the results agree
C4_Witness ==
    /\ Returned("GetStatsForUpstreams")
    /\ last.set
    /\ upstreams = last.input
    /\ gres = last.gres
    /\ Len(upstreams) = 2
    /\ gres[1].err = NilErr
    /\ gres[2].err = NilErr
    /\ gres[1].stats # gres[2].stats
    /\ finished = <<1, 2>>
    /\ last.finished = <<2, 1>>
    /\ ret.stats = last.stats

\* the peer list the remote serves for upstream u
PeersOf(u) == server[u].body.peers

\* the remote answers the stats request for u with status 200 and a JSON
\* object that the body read delivers
ServesPeers(u) ==
    /\ ~server[u].neterr
    /\ server[u].code = StatusOK
    /\ ~server[u].readerr
    /\ server[u].body.t = "object"

\* C5: for a non-empty peer list GetStatsFor succeeds with Total = number of
\* peers, Up = number of peers whose state is exactly "up", Down = Total - Up
\* = number of peers in any other state.
C5_CountsPeers ==
    (Returned("GetStatsFor") /\ ServesPeers(op.upstream)
        /\ Len(PeersOf(op.upstream)) >= 1) =>
        LET peers == PeersOf(op.upstream) IN
        /\ ret.err = NilErr
        /\ ret.stats.Total = Len(peers)
        /\ ret.stats.Up = Cardinality({i \in DOMAIN peers : peers[i] = "up"})
        /\ ret.stats.Down = ret.stats.Total - ret.stats.Up
        /\ ret.stats.Down = Cardinality({i \in DOMAIN peers : peers[i] # "up"})

\* three peers, one up, one unavail, one with an empty state: {3, 1, 2}
C5_Witness ==
    /\ Returned("GetStatsFor")
    /\ ServesPeers(op.upstream)
    /\ PeersOf(op.upstream) = <<"up", "unavail", "">>
    /\ ret.stats = Stats(3, 1, 2)

\* C6: when the request for an upstream succeeds and the decoded peer list
\* is empty, GetStatsFor returns the empty-upstream error with the zero
\* Stats; it never returns a nil error with the zero Stats.
C6_EmptyUpstreamFails ==
    Returned("GetStatsFor") =>
        LET r == get(UpstreamURL(c, op.upstream), "responseUpstream", ZeroResponseUpstream) IN
        /\ (r.err = NilErr /\ Len(r.data.Peers) = 0) =>
               /\ ret.err = ErrorsNew("no servers in upstream")
               /\ ret.stats = ZeroStats
        /\ ~(ret.err = NilErr /\ ret.stats = ZeroStats)

\* the remote served an object with an empty peer list and the call failed
C6_Witness ==
    /\ Returned("GetStatsFor")
    /\ ServesPeers(op.upstream)
    /\ PeersOf(op.upstream) = <<>>
    /\ ret.err = ErrorsNew("no servers in upstream")

\* the zone discovery request fails in the transport or the decoder
DiscoveryFails == get(ZonesURL(c), "interface", NilInterface).err # NilErr

\* C7: when GetStatsForHost has returned after a successful resolution: if
\* the hostname is not a key of the resolved mapping, the result is the
\* no-stat-data error with the zero Stats; otherwise it is a nil error with
\* the Stats GetStatsForUpstreams yields for the list under that key.
C7_HostDelegates ==
    (Returned("GetStatsForHost") /\ resolved.err = NilErr) =>
        IF op.hostname \notin DOMAIN resolved.m
        THEN /\ ret.err = ErrorsNew("no stat data for host")
             /\ ret.stats = ZeroStats
             /\ gpc = <<>>
        ELSE /\ ret.err = NilErr
             /\ upstreams = resolved.m[op.hostname]
             /\ ret.stats = SumStats(resolved.m[op.hostname])

\* the hostname resolved to two upstreams and their counts were summed
C7_Witness ==
    /\ Returned("GetStatsForHost")
    /\ op.hostname \in DOMAIN resolved.m
    /\ Len(resolved.m[op.hostname]) = 2
    /\ ret.err = NilErr
    /\ ret.stats.Total = 4

\* C8: GetStatsForHost returns an error exactly when the discovery request
\* fails or the hostname is not a key of the resolved mapping; the outcomes
\* of the per-upstream fetches never make it fail.
C8_HostErrorsOnlyFromResolution ==
    Returned("GetStatsForHost") =>
        (ret.err # NilErr <=>
            (DiscoveryFails \/ op.hostname \notin DOMAIN resolved.m))

\* the hostname resolved to upstreams whose fetches all failed, and the
\* call returned a nil error
C8_Witness ==
    /\ Returned("GetStatsForHost")
    /\ Len(upstreams) >= 1
    /\ \A i \in DOMAIN gres : gres[i].err # NilErr
    /\ ret.err = NilErr
    /\ ret.stats = ZeroStats

\* the upstreams of the decoded discovery response whose zone is a string
\* that yields hostname h
Matching(h) ==
    LET m == zones.body.m IN
    {u \in DOMAIN m : m[u].t = "object" /\ m[u].zt = "string"
                      /\ Split(m[u].zone, "-")[1] = h}

\* C9: whenever a GetUpstreamsFor call has ended after a discovery request
\* that succeeded and no upstream matches the hostname, it has returned an
\* empty mapping and a nil error; and it returns an error only when the
\* transport or the decoder failed.
C9_EmptyMappingWhenNoMatch ==
    (pc \in {"returned", "panicked"} /\ op.name = "GetUpstreamsFor") =>
        /\ (~DiscoveryFails /\ Matching(op.hostname) = {}) =>
               (pc = "returned" /\ ret.m = EmptyMap /\ ret.err = NilErr)
        /\ ret.err # NilErr => DiscoveryFails

\* C10: the list GetUpstreamsFor returns under the hostname holds, as a
\* set, exactly the upstreams of the zone map whose derived hostname is the
\* requested one; without a match the hostname is not a key.
C10_ExactlyMatching ==
    (Returned("GetUpstreamsFor") /\ ret.err = NilErr) =>
        IF Matching(op.hostname) = {}
        THEN op.hostname \notin DOMAIN ret.m
        ELSE /\ op.hostname \in DOMAIN ret.m
             /\ Range(ret.m[op.hostname]) = Matching(op.hostname)

\* both upstreams of the zone map match and both are returned
C10_Witness ==
    /\ Returned("GetUpstreamsFor")
    /\ Cardinality(Matching(op.hostname)) = 2
    /\ Len(op.hostname) >= 1
    /\ Range(ret.m[op.hostname]) = Names

\* the part of the zone string z before its first '-', all of z without one
BeforeFirstDash(z) ==
    LET D == {i \in DOMAIN z : z[i] = "-"} IN
    IF D = {} THEN z
    ELSE SubSeq(z, 1, (CHOOSE i \in D : \A j \in D : i <= j) - 1)

\* the upstream u is in the list returned under the requested hostname
Listed(u) == op.hostname \in DOMAIN ret.m /\ u \in Range(ret.m[op.hostname])

\* the upstreams of the zone map whose entry is an object with a string zone
WellFormed == {u \in DOMAIN zones.body.m :
                   zones.body.m[u].t = "object" /\ zones.body.m[u].zt = "string"}

\* C11: the hostname derived from a zone string is the part before its
\* first '-', and the whole string when it has no '-': GetUpstreamsFor lists
\* an upstream with a zone string exactly when that part is the requested
\* hostname.
C11_HostnameBeforeFirstDash ==
    (Returned("GetUpstreamsFor") /\ ret.err = NilErr) =>
        \A u \in WellFormed :
            Listed(u) <=> BeforeFirstDash(zones.body.m[u].zone) = op.hostname

\* a zone with two '-' and a zone without '-' are both listed under "h"
C11_Witness ==
    /\ Returned("GetUpstreamsFor") /\ ret.err = NilErr
    /\ zones.body.t = "object" /\ DOMAIN zones.body.m = Names
    /\ zones.body.m["a"] = ZoneOf(<<"h", "-", "-">>)
    /\ zones.body.m["b"] = ZoneOf(<<"h">>)
    /\ op.hostname = <<"h">>
    /\ Listed("a") /\ Listed("b")

\* the upstreams of the zone map whose zone is "demo-backend"
DemoBackendUpstreams ==
    {u \in WellFormed : zones.body.m[u].zone = DemoBackend}

\* C12 as stated: GetUpstreamsFor("demo-backend") lists an upstream whose
\* zone is "demo-backend".
C12_DemoBackendWhole ==
    (Returned("GetUpstreamsFor") /\ ret.err = NilErr /\ op.hostname = DemoBackend) =>
        \A u \in DemoBackendUpstreams : Listed(u)

\* C12: for the zone string "demo-backend" the derived hostname is "demo":
\* GetUpstreamsFor("demo") lists an upstream whose zone is "demo-backend",
\* and GetUpstreamsFor("demo-backend") does not list it.
C12_DemoBackendDerivesDemo ==
    (Returned("GetUpstreamsFor") /\ ret.err = NilErr) =>
        \A u \in DemoBackendUpstreams :
            /\ op.hostname = Demo => Listed(u)
            /\ op.hostname = DemoBackend => ~Listed(u)

\* "demo" was asked for and the upstream of zone "demo-backend" is listed
C12_Witness ==
    /\ Returned("GetUpstreamsFor") /\ ret.err = NilErr
    /\ op.hostname = Demo
    /\ "a" \in DemoBackendUpstreams
    /\ Listed("a")

\* C13: with a 200 response holding a JSON object, GetUpstreamsFor returns
\* without an error and without panicking whatever the entries are; an entry
\* that is not an object, or has no zone string, is not listed, and the
\* other entries are listed exactly as they are when it is left out of the
\* response.
C13_MalformedEntriesSkipped ==
    ((pc \in {"returned", "panicked"} /\ op.name = "GetUpstreamsFor"
      /\ ~DiscoveryFails /\ zones.body.t = "object") =>
        /\ pc = "returned"
        /\ ret.err = NilErr
        /\ \A u \in DOMAIN zones.body.m \ WellFormed : ~Listed(u)
        /\ LET rest == [u \in WellFormed |-> zones.body.m[u]]
               without == rangeZones(op.hostname, rest,
                                     CHOOSE o \in Orders(WellFormed) : TRUE, 1, EmptyMap)
           IN \A u \in WellFormed :
                  Listed(u) <=> (op.hostname \in DOMAIN without
                                 /\ u \in Range(without[op.hostname])))

\* one entry is not an object, the other matches and is returned
C13_Witness ==
    /\ Returned("GetUpstreamsFor") /\ ret.err = NilErr
    /\ zones.body.t = "object" /\ DOMAIN zones.body.m = Names
    /\ zones.body.m["a"].t # "object"
    /\ zones.body.m["b"] = ZoneOf(<<"g", "-", "h">>)
    /\ op.hostname = <<"g">>
    /\ ret.m = [k \in {<<"g">>} |-> <<"b">>]

\* the discovery endpoint answers 200 with valid JSON that is not an object
NonObjectDiscovery ==
    /\ ~zones.neterr /\ zones.code = StatusOK /\ ~zones.readerr
    /\ zones.body.t \in {"null", "array", "string", "number"}

\* C14: whenever a GetUpstreamsFor or GetStatsForHost call has ended after
\* a 200 discovery response whose body is valid JSON but no object, the call
\* has returned, not panicked, and its result is an error.
C14_NonObjectIsDecodeError ==
    (pc \in {"returned", "panicked"} /\ op.name \in {"GetUpstreamsFor", "GetStatsForHost"}
     /\ NonObjectDiscovery) =>
        (pc = "returned" /\ ret.err # NilErr)

\* the versions WithVersion accepts, among those tried
Accepted == {v \in VersionsTried : WithVersion(NilClient, v).err = NilErr}

\* NewClient returned no client and an error
Rejected == nc.isnil /\ nc.err # NilErr /\ c = NilClient

\* C15: NewClient with an empty base URL fails; with a valid base URL and a
\* WithVersion(9) or WithVersion(99) option it fails; with a valid base URL
\* and no option it returns a client of version 8, and 8 is the greatest
\* version that WithVersion accepts.
C15_ConstructionChecks ==
    nc.called =>
        /\ nc.baseURL = "" => Rejected
        /\ (nc.baseURL \in WellFormedBases
            /\ \E i \in DOMAIN nc.opts :
                   nc.opts[i] \in {WithVersionOpt(9), WithVersionOpt(99)}) => Rejected
        /\ (nc.baseURL \in WellFormedBases /\ nc.opts = <<>>) =>
               /\ ~nc.isnil /\ nc.err = NilErr
               /\ c.version = 8
               /\ 8 \in Accepted /\ \A v \in Accepted : v <= 8

\* NewClient was called with a valid base URL and WithVersion(99), and failed
C15_Witness ==
    /\ nc.called
    /\ nc.baseURL = "http://nginx"
    /\ nc.opts = <<WithVersionOpt(99)>>
    /\ Rejected

\* C16: whenever NewClient was called with a base URL that is not a
\* well-formed absolute URL, it returned no client and an error.
C16_MalformedBaseRejected ==
    (nc.called /\ nc.baseURL \notin WellFormedBases) => Rejected

\* the option o fails on every client
Fails(o) ==
    \/ o.kind = "WithVersion" /\ o.v \notin 4..8
    \/ o.kind = "WithHTTPClient" /\ o.h = "nil"

\* the error of the failing option o
OptionError(o) ==
    IF o.kind = "WithVersion"
    THEN ErrorfCode("unsupported NGINX version", o.v)
    ELSE ErrorsNew("nil http client")

\* the positions of the options of the given kind
OfKind(opts, kind) == {i \in DOMAIN opts : opts[i].kind = kind}

\* the greatest element of a non-empty set of numbers
Max(S) == CHOOSE i \in S : \A j \in S : j <= i

\* C17: for a non-empty base URL, if some option fails then NewClient
\* returns a nil client with the error of the first failing option and has
\* called no option after it; if none fails, it has called them all and the
\* client holds, for the version and for the HTTP client, the value of the
\* last option that sets it, or the default when no option sets it.
C17_OptionsInOrder ==
    (nc.called /\ nc.baseURL # "") =>
        LET F == {i \in DOMAIN nc.opts : Fails(nc.opts[i])}
            V == OfKind(nc.opts, "WithVersion")
            H == OfKind(nc.opts, "WithHTTPClient")
        IN IF F # {}
           THEN LET k == CHOOSE i \in F : \A j \in F : i <= j IN
                /\ nc.isnil /\ c = NilClient
                /\ nc.err = OptionError(nc.opts[k])
                /\ nc.applied = k
           ELSE /\ ~nc.isnil /\ nc.err = NilErr
                /\ nc.applied = Len(nc.opts)
                /\ c.baseURL = nc.baseURL
                /\ c.version = IF V = {} THEN 8 ELSE nc.opts[Max(V)].v
                /\ c.httpClient = IF H = {} THEN "default" ELSE nc.opts[Max(H)].h

\* the first of two options fails: the second is not called
C17_Witness ==
    /\ nc.called
    /\ nc.baseURL = "http://nginx"
    /\ nc.opts = <<WithVersionOpt(9), WithHTTPClientOpt("h1")>>
    /\ nc.isnil /\ nc.applied = 1
    /\ nc.err = ErrorfCode("unsupported NGINX version", 9)

\* the server answers the request for the upstream u with a status other
\* than 200
AnswersNon200(u) == ~server[u].neterr /\ server[u].code # 200

\* C18: when GetStatsFor has returned after a response whose status is not
\* 200, the error carries that status code, the call made one request whose
\* body was neither read nor decoded, and the Stats are the zero value
\* whatever the body holds.
C18_StatusBeforeBody ==
    (Returned("GetStatsFor") /\ AnswersNon200(op.upstream)) =>
        /\ ret.err.chain = <<"got response code">>
        /\ ret.err.code = server[op.upstream].code
        /\ ret.stats = ZeroStats
        /\ Len(log) = 1
        /\ log[1].responded /\ log[1].read = "none" /\ ~log[1].decoded

\* a 404 whose body is a well-formed upstream document with one peer up
C18_Witness ==
    /\ Returned("GetStatsFor")
    /\ server[op.upstream] = RespStatus(404, JsonUpstream(<<"up">>))
    /\ ret.err.code = 404
    /\ ret.stats = ZeroStats
    /\ ~log[1].decoded

\* C19: every request of the call that got a response has had its body
\* read to the end and closed.
C19_BodyDrainedAndClosed ==
    \A i \in DOMAIN log : log[i].responded => (log[i].read = "all" /\ log[i].closed)

\* C20: a GetStatsFor call issues at most one request; a
\* GetStatsForUpstreams call issues at most one request per element of its
\* list, each goroutine at most one and for its own element, whether the
\* request succeeded or failed.
C20_NoRetries ==
    /\ Returned("GetStatsFor") => (sent <= 1 /\ Len(log) = sent)
    /\ op.name = "GetStatsForUpstreams" =>
           /\ sent <= Len(upstreams)
           /\ \A i \in DOMAIN gres :
                  /\ Len(gres[i].http) <= 1
                  /\ \A k \in DOMAIN gres[i].http :
                         gres[i].http[k].url = UpstreamURL(c, upstreams[i])

\* two upstreams, one request each, one of them failed
C20_Witness ==
    /\ Returned("GetStatsForUpstreams")
    /\ Len(upstreams) = 2
    /\ sent = 2
    /\ \E i \in DOMAIN gres : gres[i].err # NilErr /\ Len(gres[i].http) = 1
    /\ \E i \in DOMAIN gres : gres[i].err = NilErr /\ Len(gres[i].http) = 1

\* C21: a GetStatsForUpstreams call through the default HTTP client whose
\* context is not cancelled eventually returns, whatever the remote does.
C21_ReturnsWithoutCancel ==
    (op.name = "GetStatsForUpstreams" /\ c.httpClient = "default" /\ ctx = "live")
        ~> (pc = "returned" \/ ctx = "cancelled")

\* a request for the upstream u, made on its own with a live context,
\* succeeds with a non-empty peer list
WouldSucceed(u) == ServesPeers(u) /\ Len(PeersOf(u)) >= 1

\* the Stats of the peer list the remote serves for u
Alone(u) ==
    LET n == Len(PeersOf(u))
        k == Cardinality({j \in DOMAIN PeersOf(u) : PeersOf(u)[j] = "up"})
    IN Stats(n, k, n - k)

\* field by field, the sum of Alone over the positions I of the list l
SumAlone(l, I) ==
    Stats(SumOver([i \in DOMAIN l |-> Alone(l[i]).Total], I),
          SumOver([i \in DOMAIN l |-> Alone(l[i]).Up], I),
          SumOver([i \in DOMAIN l |-> Alone(l[i]).Down], I))

\* C22: in a GetStatsForUpstreams call whose context is not cancelled, a
\* fetch that would succeed on its own is never held up by its siblings,
\* succeeds with its own counts whatever they do (answer, fail, run into the
\* timeout), and the returned Stats hold the full counts of every such
\* fetch.
C22_SiblingsIndependent ==
    (op.name = "GetStatsForUpstreams" /\ ctx = "live") =>
        /\ \A i \in DOMAIN gpc :
               WouldSucceed(upstreams[i]) =>
                   /\ gpc[i] = "fetch" => ENABLED Fetch(i)
                   /\ gpc[i] \notin {"idle", "fetch"} =>
                          (gres[i].err = NilErr /\ gres[i].stats = Alone(upstreams[i]))
        /\ pc = "returned" =>
               ret.stats = SumAlone(upstreams,
                                    {i \in DOMAIN upstreams : WouldSucceed(upstreams[i])})

\* one fetch ran into the client's timeout, its sibling succeeded and the
\* call returned the sibling's counts
C22_Witness ==
    /\ Returned("GetStatsForUpstreams") /\ ctx = "live"
    /\ Len(upstreams) = 2
    /\ \E i, j \in DOMAIN gres :
          /\ gres[i].err.chain = <<"sending request", "Client.Timeout exceeded">>
          /\ gres[j].err = NilErr
          /\ ret.stats = gres[j].stats
    /\ ret.stats = Stats(2, 1, 1)

\* C23: after the caller's context is cancelled during
\* GetStatsForUpstreams, every fetch that completes fails; the call returns;
\* and the Stats it returns are the sum of the counts of the fetches that
\* succeeded, each with the counts the remote served.
C23_CancelKeepsMerged ==
    /\ [][\A i \in DOMAIN gpc :
            (ctx = "cancelled" /\ gpc[i] = "fetch" /\ gpc'[i] # "fetch") =>
                (gres'[i].err # NilErr /\ gpc'[i] = "wgDone")]_vars
    /\ []((Returned("GetStatsForUpstreams") /\ ctx = "cancelled") =>
            LET S == {i \in DOMAIN gres : gres[i].err = NilErr} IN
            /\ \A i \in S : WouldSucceed(upstreams[i])
            /\ ret.stats = SumAlone(upstreams, S))
    /\ ((op.name = "GetStatsForUpstreams" /\ ctx = "cancelled") ~> (pc = "returned"))

\* cancelled between two fetches: the first had succeeded and is in the
\* result, the second was aborted
C23_Witness ==
    /\ Returned("GetStatsForUpstreams") /\ ctx = "cancelled"
    /\ Len(upstreams) = 2
    /\ \E i, j \in DOMAIN gres :
          /\ gres[i].err = NilErr
          /\ gres[j].err.chain = <<"sending request", "context canceled">>
          /\ WouldSucceed(upstreams[j])
    /\ ret.stats = Stats(2, 1, 1)

\* C24: the launch loop never waits for a goroutine it has started, a
\* started fetch never waits for another fetch, and once the loop is over a
\* goroutine has been started for every element of the list.
C24_NoConcurrencyCap ==
    /\ pc = "launching" => ENABLED Launch
    /\ \A i \in DOMAIN gpc : gpc[i] = "fetch" => ENABLED Fetch(i)
    /\ (pc = "waiting" /\ op.name = "GetStatsForUpstreams") =>
           /\ Len(gpc) = Len(op.list)
           /\ \A i \in DOMAIN gpc : gpc[i] # "idle"

\* a list of the greatest length with every fetch in flight at once
C24_Witness ==
    /\ op.name = "GetStatsForUpstreams"
    /\ pc = "waiting"
    /\ Len(upstreams) = MaxUpstreams
    /\ \A i \in DOMAIN gpc : gpc[i] = "fetch"

\* C25: after any sequence of GetStatsFor, GetUpstreamsFor, GetStatsForHost
\* and GetStatsForUpstreams calls, in any state of their progress, the
\* client's base URL, version and HTTP client are those NewClient gave it.
C25_ConfigImmutable ==
    (nc.called /\ ~nc.isnil) =>
        /\ c = NewClient(nc.baseURL, nc.opts).c
        /\ c.baseURL = nc.baseURL

\* a GetStatsForHost call has failed and the client is as NewClient built it
C25_Witness ==
    /\ Returned("GetStatsForHost")
    /\ ret.err # NilErr
    /\ c.baseURL = "http://nginx" /\ c.version = 8 /\ c.httpClient = "default"

\* C27: every error GetStatsFor returns names the upstream that was queried.
C27_ErrorsNameUpstream ==
    (Returned("GetStatsFor") /\ ret.err # NilErr) => op.upstream \in ret.err.names

\* C28: the Stats that GetStatsForUpstreams returns, directly or through
\* GetStatsForHost, satisfy Up + Down = Total.
C28_UpPlusDownIsTotal ==
    (pc = "returned" /\ op.name \in {"GetStatsForUpstreams", "GetStatsForHost"}) =>
        ret.stats.Up + ret.stats.Down = ret.stats.Total

\* a call returned with one fetch failed and the other's peers counted, one
\* of them up and one down
C28_Witness ==
    /\ Returned("GetStatsForUpstreams")
    /\ \E i \in DOMAIN gres : gres[i].err # NilErr
    /\ ret.stats.Up = 1 /\ ret.stats.Down = 1 /\ ret.stats.Total = 2

\* C29: when no fetch succeeded, GetStatsForUpstreams returns the zero
\* Stats and no error, for the empty list as for a list whose fetches all
\* failed; for the empty list it has issued no request.
C29_AllFailedIsZero ==
    (Returned("GetStatsForUpstreams") /\ \A i \in DOMAIN gres : gres[i].err # NilErr) =>
        /\ ret = Ret(ZeroStats, NilErr, EmptyMap)
        /\ op.list = <<>> => sent = 0

\* two fetches, both failed
C29_Witness ==
    /\ Returned("GetStatsForUpstreams")
    /\ Len(op.list) = 2
    /\ \A i \in DOMAIN gres : gres[i].err # NilErr /\ Len(gres[i].http) = 1
    /\ ret.stats = ZeroStats

\* the number of occurrences of the name n in the list l
Occurrences(l, n) == Cardinality({i \in DOMAIN l : l[i] = n})

\* the requests made for the upstream n by the goroutines of the call
RequestsFor(n) ==
    Cardinality({i \in DOMAIN gres :
                    Len(gres[i].http) = 1 /\ gres[i].http[1].url.name = n})

\* the counts of n, if a request for it succeeds, else zero
Contribution(n) == IF WouldSucceed(n) THEN Alone(n) ELSE ZeroStats

\* C30: when GetStatsForUpstreams has returned, each name has been
\* requested as many times as it occurs in the list, and each field of the
\* result is the sum over the names of the occurrences times the counts of
\* the name.
C30_NoDeduplication ==
    Returned("GetStatsForUpstreams") =>
        /\ \A n \in Names : RequestsFor(n) = Occurrences(op.list, n)
        /\ ret.stats.Total =
               SumOver([n \in Names |-> Occurrences(op.list, n) * Contribution(n).Total], Names)
        /\ ret.stats.Up =
               SumOver([n \in Names |-> Occurrences(op.list, n) * Contribution(n).Up], Names)
        /\ ret.stats.Down =
               SumOver([n \in Names |-> Occurrences(op.list, n) * Contribution(n).Down], Names)

\* the same name twice: two requests, counts added twice
C30_Witness ==
    /\ Returned("GetStatsForUpstreams")
    /\ op.list = <<"a", "a">>
    /\ WouldSucceed("a")
    /\ sent = 2
    /\ ret.stats.Total = 2 * Alone("a").Total

\* C26: with two GetStatsForUpstreams calls in progress on one client at
\* the same time, each call that has returned has returned the sum of the
\* counts of the upstreams of its own list whose fetch succeeds, as a call
\* running alone does.
C26_ConcurrentCallsSeparate ==
    /\ Returned("GetStatsForUpstreams") =>
           ret.stats = SumAlone(upstreams,
                                {i \in DOMAIN upstreams : WouldSucceed(upstreams[i])})
    /\ other.pc = "returned" =>
           other.ret = SumAlone(other.upstreams,
                                {i \in DOMAIN other.upstreams :
                                    WouldSucceed(other.upstreams[i])})

\* the first call has returned its own counts while the second call, begun
\* before, is between its additions
C26_Witness ==
    /\ Returned("GetStatsForUpstreams")
    /\ ret.stats = Stats(2, 1, 1)
    /\ other.pc = "waiting"
    /\ other.gpc = <<"addUp">>
    /\ other.total = 2
    /\ total = 2

\* the hostname holds a '-'
HasDash(h) == \E i \in DOMAIN h : h[i] = "-"

\* the zones endpoint answered 200 with a JSON object: a zone map
ZoneMapServed ==
    /\ ~zones.neterr /\ zones.code = StatusOK /\ ~zones.readerr
    /\ zones.body.t = "object"

\* the zone of some well-formed entry is the hostname followed by '-'
ZoneBeginsWith(h) ==
    \E u \in WellFormed :
        LET z == zones.body.m[u].zone IN
        /\ Len(z) > Len(h)
        /\ SubSeq(z, 1, Len(h)) = h
        /\ z[Len(h) + 1] = "-"

\* C31: a derived hostname never holds a '-': whatever the zone map served,
\* a GetUpstreamsFor call for a hostname holding a '-' has, once ended,
\* returned an empty mapping with a nil error, and a GetStatsForHost call for
\* it has, once begun, returned the no-stat-data error with the zero Stats
\* and started no fetch.
C31_DashedHostnameNeverMatches ==
    (ZoneMapServed /\ HasDash(op.hostname)) =>
        /\ (op.name = "GetUpstreamsFor" /\ pc # "idle") =>
               /\ pc = "returned"
               /\ ret.err = NilErr
               /\ ret.m = EmptyMap
        /\ op.name = "GetStatsForHost" =>
               /\ pc = "returned"
               /\ ret.err = ErrorsNew("no stat data for host")
               /\ ret.stats = ZeroStats
               /\ gpc = <<>>

\* GetStatsForHost("bar.example.org-lxr") has failed with the no-stat-data
\* error although the zone "bar.example.org-lxr-backend" was served
C31_Witness ==
    /\ Returned("GetStatsForHost")
    /\ op.hostname = BarExampleOrgLxr
    /\ ZoneMapServed
    /\ ZoneBeginsWith(BarExampleOrgLxr)
    /\ ret.err = ErrorsNew("no stat data for host")

\* GetUpstreamsFor("demo-backend") has returned an empty mapping although
\* the zone "demo-backend" was served
C31_WitnessUpstreams ==
    /\ Returned("GetUpstreamsFor")
    /\ op.hostname = DemoBackend
    /\ DemoBackendUpstreams # {}
    /\ ret.m = EmptyMap

\* the mapping has at most the key h, and under it a non-empty list without
\* a repeated name
OneKeyNoRepeat(m, h) ==
    /\ DOMAIN m \subseteq {h}
    /\ \A k \in DOMAIN m :
           /\ Len(m[k]) >= 1
           /\ \A i, j \in DOMAIN m[k] : m[k][i] = m[k][j] => i = j

\* GetStatsForHost has handed a list to GetStatsForUpstreams
PassedList ==
    /\ op.name = "GetStatsForHost"
    /\ pc \in {"launching", "waiting"} \/ (pc = "returned" /\ ret.err = NilErr)

\* C32: the mapping GetUpstreamsFor returns without an error has at most
\* one key, the requested hostname, and a key that is present maps to a
\* non-empty list holding each upstream name once; so the list
\* GetStatsForHost hands to GetStatsForUpstreams, the one under that key, is
\* never empty.
C32_OneKeyNonEmptyList ==
    /\ (Returned("GetUpstreamsFor") /\ ret.err = NilErr) =>
           OneKeyNoRepeat(ret.m, op.hostname)
    /\ (op.name = "GetStatsForHost" /\ pc # "panicked" /\ resolved.err = NilErr) =>
           OneKeyNoRepeat(resolved.m, op.hostname)
    /\ PassedList =>
           /\ op.hostname \in DOMAIN resolved.m
           /\ upstreams = resolved.m[op.hostname]
           /\ Len(upstreams) >= 1

\* GetStatsForHost("demo") has returned after handing over the two
\* upstreams of the zones "demo-backend" and "demo", listed once each
C32_Witness ==
    /\ Returned("GetStatsForHost") /\ ret.err = NilErr
    /\ op.hostname = Demo
    /\ DOMAIN resolved.m = {Demo}
    /\ Len(upstreams) = 2
    /\ Range(upstreams) = {"a", "b"}
    /\ {zones.body.m[u].zone : u \in WellFormed} = {DemoBackend, Demo}

\* the fetches of the fan-out that have issued their request
Fetched == {i \in DOMAIN gres : Len(gres[i].http) = 1}

\* the discovery request of the call is over: answered and its body decoded
DiscoveryCompleted ==
    /\ Len(log) = 1
    /\ log[1].url = ZonesURL(c)
    /\ log[1].responded /\ log[1].read = "all" /\ log[1].closed /\ log[1].decoded

\* C33: in a GetStatsForHost call the only request besides those of the
\* fan-out is the discovery request, made first; a goroutine has started or
\* a per-upstream request has been issued only after the discovery request
\* has completed with the hostname in the mapping; and when discovery has
\* failed or the hostname is not in the mapping the call has ended with an
\* error and one request, the discovery request.
C33_DiscoveryBeforeStats ==
    op.name = "GetStatsForHost" =>
        /\ Len(log) = 1 /\ log[1].url = ZonesURL(c)
        /\ sent = 1 + Cardinality(Fetched)
        /\ \A i \in Fetched : gres[i].http[1].url = UpstreamURL(c, upstreams[i])
        /\ (gpc # <<>> \/ sent > 1) =>
               /\ DiscoveryCompleted
               /\ resolved.err = NilErr
               /\ op.hostname \in DOMAIN resolved.m
        /\ (resolved.err # NilErr \/ op.hostname \notin DOMAIN resolved.m) =>
               /\ pc \in {"returned", "panicked"}
               /\ pc = "returned" => ret.err # NilErr
               /\ gpc = <<>>
               /\ sent = 1

\* discovery has failed and the call has returned its error after one
\* request
C33_Witness ==
    /\ Returned("GetStatsForHost")
    /\ resolved.err # NilErr
    /\ ret.err = Errorf("getting stats for host", resolved.err)
    /\ sent = 1

\* the hostname is not in the mapping and the call has returned after one
\* request
C33_WitnessAbsent ==
    /\ Returned("GetStatsForHost")
    /\ resolved.err = NilErr
    /\ op.hostname \notin DOMAIN resolved.m
    /\ DOMAIN zones.body.m # {}
    /\ sent = 1

\* a per-upstream request has been issued, after the completed discovery
C33_WitnessFetched ==
    /\ op.name = "GetStatsForHost"
    /\ DiscoveryCompleted
    /\ Fetched # {}

\* C34: a GetStatsFor call that has returned has returned either an error
\* with the zero Stats, or a nil error with Stats of Total >= 1,
\* 0 <= Up <= Total and Down = Total - Up; the counts of a response decoded
\* in part before the failure are not returned.
C34_ErrorOrConsistentStats ==
    Returned("GetStatsFor") =>
        IF ret.err # NilErr
        THEN ret.stats = ZeroStats
        ELSE /\ ret.stats.Total >= 1
             /\ 0 <= ret.stats.Up /\ ret.stats.Up <= ret.stats.Total
             /\ ret.stats.Down = ret.stats.Total - ret.stats.Up

\* the call has failed on a response whose peers were decoded before the
\* decoder met the mistyped field, and has returned the zero Stats
C34_Witness ==
    /\ Returned("GetStatsFor")
    /\ server[op.upstream] = RespOK(JsonMistyped(<<"up", "down">>))
    /\ get(UpstreamURL(c, op.upstream), "responseUpstream", ZeroResponseUpstream).data.Peers
           = <<"up", "down">>
    /\ ret.err # NilErr
    /\ ret.stats = ZeroStats

\* the call has succeeded with peers up and peers not up
C34_WitnessCounts ==
    /\ Returned("GetStatsFor")
    /\ ret.err = NilErr
    /\ ret.stats = Stats(3, 1, 2)

====
